---- MODULE Spec2Model ----
(***************************************************************************)
(* Model of db.Tx (src/db/db.go): a transaction handle shared by several   *)
(* goroutines.  Every method is followed line by line; each goroutine has  *)
(* a program counter so that interleavings inside the methods are visible. *)
(***************************************************************************)
EXTENDS Integers, Sequences, FiniteSets, TLC

\* ---- bounds of the model ------------------------------------------------
NumGoroutines == 2   \* goroutines sharing the handle
MaxCalls == 4        \* method calls made on the handle in one behaviour
NumTexts == 2        \* distinct query texts a statement can resolve to
NumValues == 2       \* distinct values the database can return
NumDst == 2          \* destination variables owned by the callers
HashBits == 3        \* width of the modelled fingerprint (uint64 in the code)
MaxHandles == 2      \* handles created through the manager
MaxClock == 2        \* readings of the clock after the first

Goroutines == 1..NumGoroutines
Texts == 1..NumTexts
Values == 1..NumValues
Dst == 1..NumDst
Keys == 0..(2^HashBits - 1)

\* a statement is either BadStmt (String() fails) or the text it resolves to
BadStmt == 0
Stmts == {BadStmt} \cup Texts

VARIABLES
  mu,        \* Tx.mu: TRUE when the mutex is locked
  done,      \* Tx.done
  hash,      \* Tx.hash: the texts written since the last Reset
  cache,     \* Tx.cache: key -> destination the stored reflect.Value refers to (0: absent)
  txDone,    \* the underlying *sql.Tx has been committed or rolled back
  mem,       \* the callers' destination variables (0: zero value)
  gr,        \* per goroutine: position and locals of the call in progress
  succ,      \* texts for which some Query has returned nil
  firstOut,  \* text -> value the first successful Query of it delivered (0: none)
  decoded,   \* text -> the values scan.Load has decoded for it
  nCommit,   \* calls of t.tx.Commit so far
  nRollback, \* calls of t.tx.Rollback so far
  commitRet, \* some call of Commit has returned to its caller
  ncalls,    \* method calls started so far
  fatal,     \* the runtime stopped the process (unlock of unlocked mutex)
  txs,       \* the handles DB.Tx has returned, in the order of their creation
  maps,      \* the map objects allocated so far; a handle's cache field names one
  now,       \* what time.Now().UnixNano() returns
  cur        \* the handle and the operation of the last call on the manager's handles

vars == <<mu, done, hash, cache, txDone, mem, gr, succ, firstOut, decoded,
          nCommit, nRollback, commitRet, ncalls, fatal, txs, maps, now, cur>>

\* the state of the handles created through the manager
dbvars == <<txs, maps, now, cur>>

\* the state of the handle whose calls are followed step by step
hvars ==
  <<mu, done, hash, cache, txDone, gr, succ, firstOut, decoded, nCommit,
    nRollback, commitRet>>

\* locals of a goroutine that is not inside a call
Fresh ==
  [pc |-> "idle", op |-> "none", stmt |-> BadStmt, dst |-> 0, key |-> 0,
   err |-> "nil", log |-> <<>>, ntx |-> 0, unlocks |-> 0,
   hadOK |-> FALSE, startDone |-> FALSE, out |-> 0, hadKey |-> FALSE]

\* what the caller sees once the call has returned
Returned(g) ==
  [Fresh EXCEPT !.pc = "ret", !.op = gr[g].op, !.err = gr[g].err,
                !.unlocks = gr[g].unlocks + 1]

\* maphash.Hash.Sum64 of the bytes in the buffer: a hash of fixed width whose
\* seed stays the same for the handle
RECURSIVE Sum64(_)
Sum64(buf) ==
  IF buf = <<>> THEN 0
  ELSE (Sum64(SubSeq(buf, 1, Len(buf) - 1)) * 5 + buf[Len(buf)]) % (2^HashBits)

\* t.log(message, t.tid, err, ...): one instrumentation event of the call
Emit(g, msg, e) == Append(gr[g].log, <<msg, e>>)

TypeOK ==
  /\ mu \in BOOLEAN /\ done \in BOOLEAN /\ txDone \in BOOLEAN /\ fatal \in BOOLEAN
  /\ commitRet \in BOOLEAN
  /\ hash \in Seq(Texts)
  /\ cache \in [Keys -> Dst \cup {0}]
  /\ mem \in [Dst -> Values \cup {0}]
  /\ succ \subseteq Texts
  /\ firstOut \in [Texts -> Values \cup {0}]
  /\ decoded \in [Texts -> SUBSET Values]
  /\ ncalls \in 0..MaxCalls
  /\ \A g \in Goroutines : gr[g].key \in Keys /\ gr[g].stmt \in Stmts

Init ==
  /\ mu = FALSE
  /\ done = FALSE
  /\ hash = <<>>
  /\ cache = [k \in Keys |-> 0]
  /\ txDone = FALSE
  /\ mem = [d \in Dst |-> 0]
  /\ gr = [g \in Goroutines |-> Fresh]
  /\ succ = {}
  /\ firstOut = [q \in Texts |-> 0]
  /\ decoded = [q \in Texts |-> {}]
  /\ nCommit = 0
  /\ nRollback = 0
  /\ commitRet = FALSE
  /\ ncalls = 0
  /\ fatal = FALSE
  /\ txs = <<>>
  /\ maps = <<>>
  /\ now = 0
  /\ cur = <<0, "none">>

\* ---- callers ------------------------------------------------------------
\* a destination variable no call in progress was given
Free(d) == \A h \in Goroutines : gr[h].dst # d

\* the owner of a destination variable that a Query has filled assigns to it
\* between two calls
Mutate(d, v) ==
  /\ ~fatal
  /\ Free(d)
  /\ mem[d] # 0
  /\ mem[d] # v
  /\ mem' = [mem EXCEPT ![d] = v]
  /\ UNCHANGED dbvars
  /\ UNCHANGED <<mu, done, hash, cache, txDone, gr, succ, firstOut, decoded,
                 nCommit, nRollback, commitRet, ncalls, fatal>>

\* ---- sync.Mutex ---------------------------------------------------------
\* a goroutine enters a method and t.mu.Lock() succeeds: Lock blocks while
\* the mutex is locked, and a blocked call has no effect
MuLock(g, locals) ==
  /\ ~fatal
  /\ gr[g].pc \in {"idle", "ret"}
  /\ ncalls < MaxCalls
  /\ mu = FALSE
  /\ mu' = TRUE
  /\ gr' = [gr EXCEPT ![g] = locals]
  /\ ncalls' = ncalls + 1
  /\ UNCHANGED dbvars
  /\ UNCHANGED <<done, hash, cache, txDone, mem, succ, firstOut, decoded,
                 nCommit, nRollback, commitRet, fatal>>

\* t.mu.Unlock(): the mutex has no owner, so any goroutine can release it;
\* unlocking an unlocked mutex is a fatal runtime error that stops the process
MuUnlock(g, at, after) ==
  /\ ~fatal
  /\ gr[g].pc = at
  /\ IF mu
       THEN /\ mu' = FALSE
            /\ fatal' = FALSE
            /\ gr' = [gr EXCEPT ![g] = after]
       ELSE /\ mu' = mu
            /\ fatal' = TRUE
            /\ gr' = [gr EXCEPT ![g].pc = "fatal", ![g].unlocks = @ + 1]

\* ---- the underlying *sql.Tx ---------------------------------------------
\* errors ExecContext can return: a finished transaction rejects every use
TxExecResults == IF txDone THEN {"txdone"} ELSE {"nil", "exec"}
\* errors QueryContext can return
TxQueryResults == IF txDone THEN {"txdone"} ELSE {"nil", "query"}
\* errors Commit can return; the transaction is finished afterwards
TxCommitResults == IF txDone THEN {"txdone"} ELSE {"nil", "commit"}
\* errors Rollback can return; the transaction is finished afterwards
TxRollbackResults == IF txDone THEN {"txdone"} ELSE {"nil", "rollback"}

\* ---- Tx.Exec ------------------------------------------------------------
\* t.mu.Lock(); defer t.mu.Unlock(); query, err := stmt.String()
ExecLock(g, s) ==
  MuLock(g, [Fresh EXCEPT !.op = "Exec", !.stmt = s, !.startDone = done,
                          !.pc = IF s = BadStmt THEN "e_unlock" ELSE "e_exec",
                          !.err = IF s = BadStmt THEN "build" ELSE "nil"])

\* if err != nil { t.mu.Unlock(); return nil, err }: the deferred Unlock is
\* still to run
ExecUnlock(g) ==
  /\ MuUnlock(g, "e_unlock", [gr[g] EXCEPT !.pc = "e_defer", !.unlocks = @ + 1])
  /\ UNCHANGED dbvars
  /\ UNCHANGED <<done, hash, cache, txDone, mem, succ, firstOut, decoded,
                 nCommit, nRollback, commitRet, ncalls>>

\* an ExecContext that drops the cached results when the statement was
\* executed, as a cache invalidated by writes would
ExecContextInvalidates(g) ==
  /\ ~fatal
  /\ gr[g].pc = "e_exec"
  /\ \E e \in TxExecResults :
       /\ gr' = [gr EXCEPT ![g].pc = "e_defer", ![g].err = e, ![g].ntx = @ + 1,
                           ![g].log = Emit(g, "db.tx.exec", e)]
       /\ cache' = IF e = "nil" THEN [k \in Keys |-> 0] ELSE cache
  /\ UNCHANGED dbvars
  /\ UNCHANGED <<mu, done, hash, txDone, mem, succ, firstOut, decoded, nCommit,
                 nRollback, commitRet, ncalls, fatal>>

\* r, err = t.tx.ExecContext(t.ctx, query); t.log("db.tx.exec", ...); return r, err
ExecContext(g) ==
  /\ ~fatal
  /\ gr[g].pc = "e_exec"
  /\ \E e \in TxExecResults :
       gr' = [gr EXCEPT ![g].pc = "e_defer", ![g].err = e, ![g].ntx = @ + 1,
                        ![g].log = Emit(g, "db.tx.exec", e)]
  /\ UNCHANGED dbvars
  /\ UNCHANGED <<mu, done, hash, cache, txDone, mem, succ, firstOut, decoded,
                 nCommit, nRollback, commitRet, ncalls, fatal>>

\* the deferred t.mu.Unlock() runs and Exec returns
ExecReturn(g) ==
  /\ MuUnlock(g, "e_defer", Returned(g))
  /\ UNCHANGED dbvars
  /\ UNCHANGED <<done, hash, cache, txDone, mem, succ, firstOut, decoded,
                 nCommit, nRollback, commitRet, ncalls>>

\* ---- Tx.Query -----------------------------------------------------------
\* t.mu.Lock(); defer t.mu.Unlock(); query, err := stmt.String();
\* if err != nil { t.log("db.tx.query.build", ...); return err }
QueryLock(g, d, s) ==
  /\ Free(d)
  /\ MuLock(g, [Fresh EXCEPT !.op = "Query", !.stmt = s, !.dst = d,
                             !.hadOK = (s \in succ), !.startDone = done,
                             !.hadKey = (s # BadStmt /\ cache[Sum64(<<s>>)] # 0),
                             !.pc = IF s = BadStmt THEN "q_defer" ELSE "q_write",
                             !.err = IF s = BadStmt THEN "build" ELSE "nil",
                             !.log = IF s = BadStmt
                                       THEN <<<<"db.tx.query.build", "build">>>>
                                       ELSE <<>>])

\* t.hash.WriteString(query) appends to the hasher's buffer; it never fails
QueryHashWrite(g) ==
  /\ ~fatal
  /\ gr[g].pc = "q_write"
  /\ hash' = Append(hash, gr[g].stmt)
  /\ gr' = [gr EXCEPT ![g].pc = "q_sum"]
  /\ UNCHANGED dbvars
  /\ UNCHANGED <<mu, done, cache, txDone, mem, succ, firstOut, decoded,
                 nCommit, nRollback, commitRet, ncalls, fatal>>

\* key := t.hash.Sum64(); t.hash.Reset()
QuerySum64(g) ==
  /\ ~fatal
  /\ gr[g].pc = "q_sum"
  /\ gr' = [gr EXCEPT ![g].pc = "q_lookup", ![g].key = Sum64(hash)]
  /\ hash' = <<>>
  /\ UNCHANGED dbvars
  /\ UNCHANGED <<mu, done, cache, txDone, mem, succ, firstOut, decoded,
                 nCommit, nRollback, commitRet, ncalls, fatal>>

\* the first value a successful Query of text q delivers is remembered
NoteOut(q, v) ==
  IF firstOut[q] = 0 THEN [firstOut EXCEPT ![q] = v] ELSE firstOut

\* if r, ok := t.cache[key]; ok { dst.Set(r); log cached; return nil }
\* r refers to the variable the entry was stored from: Set copies what that
\* variable holds now
QueryCacheLookup(g) ==
  /\ ~fatal
  /\ gr[g].pc = "q_lookup"
  /\ IF cache[gr[g].key] # 0
       THEN LET v == mem[cache[gr[g].key]] IN
            /\ mem' = [mem EXCEPT ![gr[g].dst] = v]
            /\ gr' = [gr EXCEPT ![g].pc = "q_defer", ![g].err = "nil",
                                ![g].out = v,
                                ![g].log = Emit(g, "db.tx.query.cached", "nil")]
            /\ firstOut' = NoteOut(gr[g].stmt, v)
       ELSE /\ gr' = [gr EXCEPT ![g].pc = "q_query"]
            /\ UNCHANGED <<mem, firstOut>>
  /\ UNCHANGED dbvars
  /\ UNCHANGED <<mu, done, hash, cache, txDone, succ, decoded, nCommit,
                 nRollback, commitRet, ncalls, fatal>>

\* scan.Load(r, dst): decodes the rows (value v) into the destination, or
\* fails and leaves it as it was
ScanLoad(d, v, ok) == IF ok THEN [mem EXCEPT ![d] = v] ELSE mem

\* QueryContext without the return on a decode failure: the call goes on to
\* the cache store
QueryContextNoDecodeReturn(g) ==
  /\ ~fatal
  /\ gr[g].pc = "q_query"
  /\ \E e \in TxQueryResults, v \in Values, ok \in BOOLEAN :
       IF e # "nil"
         THEN /\ ok
              /\ v = 1
              /\ gr' = [gr EXCEPT ![g].pc = "q_defer", ![g].err = e,
                                  ![g].ntx = @ + 1]
              /\ mem' = mem
              /\ decoded' = decoded
         ELSE /\ ~ok => v = 1
              /\ mem' = ScanLoad(gr[g].dst, v, ok)
              /\ decoded' = IF ok THEN [decoded EXCEPT ![gr[g].stmt] = @ \cup {v}]
                                  ELSE decoded
              /\ gr' = [gr EXCEPT ![g].pc = "q_add",
                                  ![g].err = IF ok THEN "nil" ELSE "decode",
                                  ![g].out = IF ok THEN v ELSE 0,
                                  ![g].ntx = @ + 1]
  /\ UNCHANGED dbvars
  /\ UNCHANGED <<mu, done, hash, cache, txDone, succ, firstOut, nCommit,
                 nRollback, commitRet, ncalls, fatal>>

\* r, err := t.tx.QueryContext(t.ctx, query); if err != nil { return err }
\* if _, err = scan.Load(r, dst); err != nil { return err }
QueryContext(g) ==
  /\ ~fatal
  /\ gr[g].pc = "q_query"
  /\ \E e \in TxQueryResults, v \in Values, ok \in BOOLEAN :
       IF e # "nil"
         THEN /\ ok
              /\ v = 1
              /\ gr' = [gr EXCEPT ![g].pc = "q_defer", ![g].err = e,
                                  ![g].ntx = @ + 1]
              /\ mem' = mem
              /\ decoded' = decoded
         ELSE /\ ~ok => v = 1
              /\ mem' = ScanLoad(gr[g].dst, v, ok)
              /\ decoded' = IF ok THEN [decoded EXCEPT ![gr[g].stmt] = @ \cup {v}]
                                  ELSE decoded
              /\ gr' = [gr EXCEPT ![g].pc = IF ok THEN "q_add" ELSE "q_defer",
                                  ![g].err = IF ok THEN "nil" ELSE "decode",
                                  ![g].out = IF ok THEN v ELSE 0,
                                  ![g].ntx = @ + 1]
  /\ UNCHANGED dbvars
  /\ UNCHANGED <<mu, done, hash, cache, txDone, succ, firstOut, nCommit,
                 nRollback, commitRet, ncalls, fatal>>

\* if err == nil { log cache.add; t.cache[key] = reflect.ValueOf(dst).Elem();
\* return nil }: the stored Value refers to the caller's variable
QueryCacheAdd(g) ==
  /\ ~fatal
  /\ gr[g].pc = "q_add"
  /\ cache' = [cache EXCEPT ![gr[g].key] = gr[g].dst]
  /\ gr' = [gr EXCEPT ![g].pc = "q_defer", ![g].err = "nil",
                      ![g].log = Emit(g, "db.tx.query.cache.add", "nil")]
  /\ firstOut' = NoteOut(gr[g].stmt, gr[g].out)
  /\ UNCHANGED dbvars
  /\ UNCHANGED <<mu, done, hash, txDone, mem, succ, decoded, nCommit,
                 nRollback, commitRet, ncalls, fatal>>

\* the deferred t.mu.Unlock() runs and Query returns
QueryReturn(g) ==
  /\ MuUnlock(g, "q_defer", Returned(g))
  /\ succ' = IF mu /\ gr[g].err = "nil" THEN succ \cup {gr[g].stmt} ELSE succ
  /\ UNCHANGED dbvars
  /\ UNCHANGED <<done, hash, cache, txDone, mem, firstOut, decoded, nCommit,
                 nRollback, commitRet, ncalls>>

\* ---- Tx.Commit ----------------------------------------------------------
\* t.mu.Lock(); defer t.mu.Unlock()
CommitLock(g) == MuLock(g, [Fresh EXCEPT !.op = "Commit", !.pc = "c_commit"])

\* CommitTx with the handle marked Terminated only when the commit succeeded
CommitTxDoneOnSuccess(g) ==
  /\ ~fatal
  /\ gr[g].pc = "c_commit"
  /\ \E e \in TxCommitResults :
       /\ gr' = [gr EXCEPT ![g].pc = "c_defer", ![g].err = e, ![g].ntx = @ + 1,
                           ![g].log = Emit(g, "db.tx.commit", e)]
       /\ done' = (done \/ e = "nil")
  /\ txDone' = TRUE
  /\ nCommit' = nCommit + 1
  /\ UNCHANGED dbvars
  /\ UNCHANGED <<mu, hash, cache, mem, succ, firstOut, decoded, nRollback,
                 commitRet, ncalls, fatal>>

\* CommitTx with t.done set to whether the commit succeeded
CommitTxDoneIsResult(g) ==
  /\ ~fatal
  /\ gr[g].pc = "c_commit"
  /\ \E e \in TxCommitResults :
       /\ gr' = [gr EXCEPT ![g].pc = "c_defer", ![g].err = e, ![g].ntx = @ + 1,
                           ![g].log = Emit(g, "db.tx.commit", e)]
       /\ done' = (e = "nil")
  /\ txDone' = TRUE
  /\ nCommit' = nCommit + 1
  /\ UNCHANGED dbvars
  /\ UNCHANGED <<mu, hash, cache, mem, succ, firstOut, decoded, nRollback,
                 commitRet, ncalls, fatal>>

\* err = t.tx.Commit(); t.done = true; t.log("db.tx.commit", ...); return err
CommitTx(g) ==
  /\ ~fatal
  /\ gr[g].pc = "c_commit"
  /\ \E e \in TxCommitResults :
       gr' = [gr EXCEPT ![g].pc = "c_defer", ![g].err = e, ![g].ntx = @ + 1,
                        ![g].log = Emit(g, "db.tx.commit", e)]
  /\ txDone' = TRUE
  /\ nCommit' = nCommit + 1
  /\ done' = TRUE
  /\ UNCHANGED dbvars
  /\ UNCHANGED <<mu, hash, cache, mem, succ, firstOut, decoded, nRollback,
                 commitRet, ncalls, fatal>>

\* the deferred t.mu.Unlock() runs and Commit returns
CommitReturn(g) ==
  /\ MuUnlock(g, "c_defer", Returned(g))
  /\ commitRet' = (commitRet \/ ~fatal')
  /\ UNCHANGED dbvars
  /\ UNCHANGED <<done, hash, cache, txDone, mem, succ, firstOut, decoded,
                 nCommit, nRollback, ncalls>>

\* ---- Tx.Rollback --------------------------------------------------------
\* t.mu.Lock(); defer t.mu.Unlock()
RollbackLock(g) ==
  MuLock(g, [Fresh EXCEPT !.op = "Rollback", !.pc = "r_check",
                          !.startDone = done])

\* RollbackCheck without the guard on t.done
RollbackCheckNoGuard(g) ==
  /\ ~fatal
  /\ gr[g].pc = "r_check"
  /\ gr' = [gr EXCEPT ![g].pc = "r_rollback"]
  /\ UNCHANGED dbvars
  /\ UNCHANGED <<mu, done, hash, cache, txDone, mem, succ, firstOut, decoded,
                 nCommit, nRollback, commitRet, ncalls, fatal>>

\* if t.done { return nil }
RollbackCheck(g) ==
  /\ ~fatal
  /\ gr[g].pc = "r_check"
  /\ IF done
       THEN gr' = [gr EXCEPT ![g].pc = "r_defer", ![g].err = "nil"]
       ELSE gr' = [gr EXCEPT ![g].pc = "r_rollback"]
  /\ UNCHANGED dbvars
  /\ UNCHANGED <<mu, done, hash, cache, txDone, mem, succ, firstOut, decoded,
                 nCommit, nRollback, commitRet, ncalls, fatal>>

\* err = t.tx.Rollback(); t.done = true; t.log("db.tx.rollback", ...); return err
RollbackTx(g) ==
  /\ ~fatal
  /\ gr[g].pc = "r_rollback"
  /\ \E e \in TxRollbackResults :
       gr' = [gr EXCEPT ![g].pc = "r_defer", ![g].err = e, ![g].ntx = @ + 1,
                        ![g].log = Emit(g, "db.tx.rollback", e)]
  /\ txDone' = TRUE
  /\ nRollback' = nRollback + 1
  /\ done' = TRUE
  /\ UNCHANGED dbvars
  /\ UNCHANGED <<mu, hash, cache, mem, succ, firstOut, decoded, nCommit,
                 commitRet, ncalls, fatal>>

\* the deferred t.mu.Unlock() runs and Rollback returns
RollbackReturn(g) ==
  /\ MuUnlock(g, "r_defer", Returned(g))
  /\ UNCHANGED dbvars
  /\ UNCHANGED <<done, hash, cache, txDone, mem, succ, firstOut, decoded,
                 nCommit, nRollback, commitRet, ncalls>>

\* ---- specification ------------------------------------------------------
Next ==
  \/ \E d \in Dst, v \in Values : Mutate(d, v)
  \/ \E g \in Goroutines, s \in Stmts : ExecLock(g, s)
  \/ \E g \in Goroutines : ExecUnlock(g)
  \/ \E g \in Goroutines : ExecContext(g)
  \/ \E g \in Goroutines : ExecReturn(g)
  \/ \E g \in Goroutines, d \in Dst, s \in Stmts : QueryLock(g, d, s)
  \/ \E g \in Goroutines : QueryHashWrite(g)
  \/ \E g \in Goroutines : QuerySum64(g)
  \/ \E g \in Goroutines : QueryCacheLookup(g)
  \/ \E g \in Goroutines : QueryContext(g)
  \/ \E g \in Goroutines : QueryCacheAdd(g)
  \/ \E g \in Goroutines : QueryReturn(g)
  \/ \E g \in Goroutines : CommitLock(g)
  \/ \E g \in Goroutines : CommitTx(g)
  \/ \E g \in Goroutines : CommitReturn(g)
  \/ \E g \in Goroutines : RollbackLock(g)
  \/ \E g \in Goroutines : RollbackCheck(g)
  \/ \E g \in Goroutines : RollbackTx(g)
  \/ \E g \in Goroutines : RollbackReturn(g)

Spec == Init /\ [][Next]_vars

\* ---- DB.Tx and the handles it creates -------------------------------------
\* the digits strconv.FormatInt uses
Digits ==
  <<"0", "1", "2", "3", "4", "5", "6", "7", "8", "9", "a", "b", "c", "d", "e",
    "f", "g", "h", "i", "j", "k", "l", "m", "n", "o", "p", "q", "r", "s", "t",
    "u", "v">>

\* strconv.FormatInt(n, base) for n >= 0: the digits of n, most significant first
RECURSIVE FormatInt(_, _)
FormatInt(n, base) ==
  IF n < base THEN <<Digits[n + 1]>>
  ELSE Append(FormatInt(n \div base, base), Digits[(n % base) + 1])

\* the ids a caller passes: none, or one of its own
Tids == {<<>>, <<"t", "x">>}

\* cache: map[uint64]reflect.Value{}: a new, empty map; an entry is the
\* destination its Value refers to and the handle that stored it
EmptyMap == [k \in Keys |-> <<0, 0>>]

\* the clock advances between two readings, or does not
Tick ==
  /\ ~fatal
  /\ now < MaxClock
  /\ now' = now + 1
  /\ UNCHANGED <<txs, maps, cur, mem, ncalls, fatal>>
  /\ UNCHANGED hvars

\* DB.Tx with every handle given the same map
TxSharedCache(tid) ==
  /\ ~fatal
  /\ Len(txs) < MaxHandles
  /\ \E ok \in BOOLEAN :
       IF ok
         THEN /\ txs' = Append(txs,
                   [tid |-> IF tid = <<>> THEN FormatInt(now, 32) ELSE tid,
                    given |-> tid, done |-> FALSE, txDone |-> FALSE,
                    cache |-> 1])
              /\ maps' = IF maps = <<>> THEN <<EmptyMap>> ELSE maps
              /\ cur' = <<Len(txs) + 1, "Tx">>
         ELSE /\ cur' = <<0, "TxFailed">>
              /\ UNCHANGED <<txs, maps>>
  /\ UNCHANGED <<now, mem, ncalls, fatal>>
  /\ UNCHANGED hvars

\* DB.Tx(ctx, tid, opts): BeginTx fails, or a new handle is returned with the
\* given id (one made from the clock when it is empty), done false and a new
\* empty cache
Tx(tid) ==
  /\ ~fatal
  /\ Len(txs) < MaxHandles
  /\ \E ok \in BOOLEAN :
       IF ok
         THEN /\ txs' = Append(txs,
                   [tid |-> IF tid = <<>> THEN FormatInt(now, 32) ELSE tid,
                    given |-> tid, done |-> FALSE, txDone |-> FALSE,
                    cache |-> Len(maps) + 1])
              /\ maps' = Append(maps, EmptyMap)
              /\ cur' = <<Len(txs) + 1, "Tx">>
         ELSE /\ cur' = <<0, "TxFailed">>
              /\ UNCHANGED <<txs, maps>>
  /\ UNCHANGED <<now, mem, ncalls, fatal>>
  /\ UNCHANGED hvars

\* a call can be made on handle h
CanUse(h) == ~fatal /\ h \in DOMAIN txs /\ ncalls < MaxCalls

\* Tx.Exec on handle h by the one caller that uses h: a statement that fails
\* to resolve ends in the second Unlock of a free mutex, which stops the
\* process; otherwise the query goes to the handle's transaction
HandleExec(h, s) ==
  /\ CanUse(h)
  /\ ncalls' = ncalls + 1
  /\ cur' = <<h, "Exec">>
  /\ fatal' = (s = BadStmt)
  /\ UNCHANGED <<txs, maps, now, mem>>
  /\ UNCHANGED hvars

\* Tx.Query on handle h by the one caller that uses h: a build failure, a hit
\* in the handle's map, or a call on the handle's transaction whose decoded
\* result is stored in the handle's map
HandleQuery(h, d, s) ==
  /\ CanUse(h)
  /\ ncalls' = ncalls + 1
  /\ cur' = <<h, "Query">>
  /\ LET c == txs[h].cache
         key == Sum64(<<s>>)
     IN IF s = BadStmt
          THEN UNCHANGED <<maps, mem>>
          ELSE IF maps[c][key][1] # 0
            THEN /\ mem' = [mem EXCEPT ![d] = mem[maps[c][key][1]]]
                 /\ maps' = maps
            ELSE \E ok \in BOOLEAN, v \in Values :
                   IF ok /\ ~txs[h].txDone
                     THEN /\ mem' = ScanLoad(d, v, TRUE)
                          /\ maps' = [maps EXCEPT ![c][key] = <<d, h>>]
                     ELSE /\ v = 1
                          /\ UNCHANGED <<maps, mem>>
  /\ UNCHANGED <<txs, now, fatal>>
  /\ UNCHANGED hvars

\* Tx.Commit on handle h: the handle is Terminated whatever the commit returns
HandleCommit(h) ==
  /\ CanUse(h)
  /\ ncalls' = ncalls + 1
  /\ cur' = <<h, "Commit">>
  /\ txs' = [txs EXCEPT ![h].done = TRUE, ![h].txDone = TRUE]
  /\ UNCHANGED <<maps, now, mem, fatal>>
  /\ UNCHANGED hvars

\* Tx.Rollback on handle h: nothing when the handle is Terminated, otherwise
\* it is Terminated whatever the rollback returns
HandleRollback(h) ==
  /\ CanUse(h)
  /\ ncalls' = ncalls + 1
  /\ cur' = <<h, "Rollback">>
  /\ txs' = IF txs[h].done THEN txs
            ELSE [txs EXCEPT ![h].done = TRUE, ![h].txDone = TRUE]
  /\ UNCHANGED <<maps, now, mem, fatal>>
  /\ UNCHANGED hvars

Handles == 1..MaxHandles

NextDB ==
  \/ Tick
  \/ \E tid \in Tids : Tx(tid)
  \/ \E h \in Handles, s \in Stmts : HandleExec(h, s)
  \/ \E h \in Handles, d \in Dst, s \in Stmts : HandleQuery(h, d, s)
  \/ \E h \in Handles : HandleCommit(h)
  \/ \E h \in Handles : HandleRollback(h)

SpecDB == Init /\ [][NextDB]_vars

\* ---- properties ---------------------------------------------------------
\* a goroutine is inside the guarded section from the moment its Lock
\* succeeded until its call returns
Inside(g) == gr[g].pc \notin {"idle", "ret", "fatal"}

\* the call of g has executed its return statement (the deferred Unlock is
\* what remains)
AtReturn(g) == gr[g].pc \in {"e_defer", "q_defer", "c_defer", "r_defer"}

\* C1: a Query whose text a Query has already succeeded with on this handle
\* makes no call on the underlying transaction.
C1_NoRoundTrip ==
  \A g \in Goroutines :
    (gr[g].op = "Query" /\ gr[g].hadOK) => gr[g].ntx = 0

\* C2: a Query whose text a Query has already succeeded with succeeds and
\* writes into its destination the value the first such Query delivered.
C2_SameOutput ==
  \A g \in Goroutines :
    (gr[g].op = "Query" /\ gr[g].hadOK /\ gr[g].pc = "q_defer")
      => (gr[g].err = "nil" /\ gr[g].out = firstOut[gr[g].stmt])

\* the value a cache entry holds: what the stored reflect.Value refers to
EntryValue(k) == mem[cache[k]]

\* C3: once an entry is stored under a fingerprint, the value it holds never
\* changes, whatever the callers do with their destinations.
C3_EntryNeverChanges ==
  [][\A k \in Keys :
       cache[k] # 0 => (cache'[k] # 0 /\ EntryValue(k)' = EntryValue(k))]_vars

\* C4: a Rollback called on a handle that is already Terminated makes no call
\* on the underlying transaction and the value it returns is nil.
C4_RollbackAfterDoneIsNoop ==
  \A g \in Goroutines :
    (gr[g].op = "Rollback" /\ gr[g].startDone)
      => (gr[g].ntx = 0 /\ gr[g].err = "nil" /\ gr[g].pc # "r_rollback")

\* C4 witness: a second Rollback has executed its return with nil and without
\* a call, the underlying rollback having been called once before.
C4_Witness ==
  \E g \in Goroutines :
    /\ gr[g].op = "Rollback" /\ gr[g].startDone /\ gr[g].pc = "r_defer"
    /\ gr[g].err = "nil" /\ gr[g].ntx = 0
    /\ nRollback = 1 /\ nCommit = 0

\* C5: the underlying commit is invoked at most once per handle.
C5_CommitAtMostOnce == nCommit <= 1

\* C6: at most one goroutine is inside the guarded section at any time.
C6_MutualExclusion ==
  Cardinality({g \in Goroutines : Inside(g)}) <= 1

\* C7: every call releases the lock exactly once: it never unlocks twice,
\* never unlocks an unlocked mutex, and has unlocked once when it returns.
C7_UnlockExactlyOnce ==
  \A g \in Goroutines :
    /\ gr[g].unlocks <= 1
    /\ gr[g].pc # "fatal"
    /\ gr[g].pc = "ret" => gr[g].unlocks = 1

\* C8: an Exec or Query whose statement fails to resolve returns the build
\* failure, makes no call on the underlying transaction and leaves the cache
\* as it was.
C8_BuildFailure ==
  [][\A g \in Goroutines :
       (gr[g].op \in {"Exec", "Query"} /\ gr[g].stmt = BadStmt /\ Inside(g)
          /\ gr'[g] # gr[g])
         => /\ cache' = cache
            /\ gr[g].ntx = 0
            /\ gr[g].err = "build"
            /\ gr'[g].pc # "fatal"
            /\ gr'[g].pc = "ret" => gr'[g].err = "build"]_vars

\* C9: a call that returns a failure has emitted exactly one event, and the
\* event carries that failure.
C9_OneEventPerFailure ==
  \A g \in Goroutines :
    (AtReturn(g) /\ gr[g].err # "nil")
      => (Len(gr[g].log) = 1 /\ gr[g].log[1][2] = gr[g].err)

\* C10: a Commit or Rollback that has executed its return leaves the handle
\* Terminated, whether the underlying call succeeded or failed, and a Rollback
\* that follows does not call the underlying transaction.
C10_TerminatedRegardless ==
  \A g \in Goroutines :
    /\ (gr[g].op \in {"Commit", "Rollback"} /\ gr[g].pc \in {"c_defer", "r_defer", "ret"})
         => done
    /\ (gr[g].op = "Rollback" /\ gr[g].startDone) => gr[g].pc # "r_rollback"

\* C10 witness: a Commit has failed and returned, the handle is Terminated,
\* and a following Rollback has returned nil without calling the transaction.
C10_Witness ==
  \E g, h \in Goroutines :
    /\ gr[g].op = "Commit" /\ gr[g].pc = "ret" /\ gr[g].err = "commit"
    /\ done
    /\ gr[h].op = "Rollback" /\ gr[h].pc = "r_defer" /\ gr[h].startDone
    /\ gr[h].ntx = 0 /\ nRollback = 0

\* C11: no Exec or Query issued on a Terminated handle returns success.
C11_NoSuccessAfterDone ==
  \A g \in Goroutines :
    (gr[g].op \in {"Exec", "Query"} /\ gr[g].startDone /\ AtReturn(g))
      => gr[g].err # "nil"

\* C12: a Query that fails leaves the cache as it was, and the cache changes
\* only when a Query whose decode succeeded stores its destination under its
\* key.
C12_FailedQueryLeavesCache ==
  [][/\ \A g \in Goroutines :
          (gr'[g] # gr[g] /\ gr'[g].op = "Query" /\ gr'[g].err # "nil")
            => cache' = cache
     /\ cache' # cache
          => \E g \in Goroutines :
               /\ gr[g].pc = "q_add" /\ gr'[g].pc = "q_defer"
               /\ gr'[g].err = "nil"
               /\ gr[g].out # 0 /\ mem[gr[g].dst] = gr[g].out
               /\ cache' = [cache EXCEPT ![gr[g].key] = gr[g].dst]]_vars

\* C12 witness: a Query has missed the cache, called the transaction and
\* failed to decode, while the cache holds an entry of an earlier Query and
\* none under the failed Query's key.
C12_Witness ==
  \E g \in Goroutines :
    /\ gr[g].op = "Query" /\ gr[g].pc = "q_defer" /\ gr[g].err = "decode"
    /\ gr[g].ntx = 1
    /\ cache[gr[g].key] = 0
    /\ \E k \in Keys : cache[k] # 0

\* C13: the handle starts Active and, once the termination flag is set, no
\* step of any call clears it.
C13_DoneNeverCleared == (done = FALSE) /\ [][done => done']_vars

\* C13 witness: a call that started on the Terminated handle has run to its
\* return and the handle is still Terminated.
C13_Witness ==
  /\ done
  /\ nCommit = 2
  /\ \E g \in Goroutines : gr[g].startDone /\ AtReturn(g)

\* C14: two handles of one manager share no mutable state: every entry a
\* handle's cache holds was stored by a Query on that handle, and the
\* termination flag of a handle changes only in a Commit or Rollback on it.
C14_HandlesShareNothing ==
  [][/\ \A h \in DOMAIN txs' : \A k \in Keys :
          maps'[txs'[h].cache][k][2] \in {0, h}
     /\ \A h \in DOMAIN txs :
          txs'[h].done # txs[h].done
            => cur' \in {<<h, "Commit">>, <<h, "Rollback">>}]_vars

\* C14 witness: both handles have queried the same text and each holds its
\* own entry under its key; the first is Terminated and the second is not.
C14_Witness ==
  /\ Len(txs) = 2
  /\ \E k \in Keys :
       maps[txs[1].cache][k][2] = 1 /\ maps[txs[2].cache][k][2] = 2
  /\ txs[1].done /\ ~txs[2].done

\* C15: a handle begun with an empty id has a generated id that is not empty
\* and differs from the generated id of every other such handle; an id the
\* caller gave is used unchanged.
C15_GeneratedIdsDiffer ==
  \A h \in DOMAIN txs :
    IF txs[h].given = <<>>
      THEN /\ txs[h].tid # <<>>
           /\ \A h2 \in DOMAIN txs :
                (h2 # h /\ txs[h2].given = <<>>) => txs[h2].tid # txs[h].tid
      ELSE txs[h].tid = txs[h].given

\* C16: a Query that returns success has emitted exactly one event: the
\* cached event when its text's fingerprint was in the cache as the call
\* started, otherwise the cache.add event, and then the fingerprint is in the
\* cache as the call returns.
C16_OneEventPerSuccess ==
  \A g \in Goroutines :
    (gr[g].op = "Query" /\ gr[g].pc = "q_defer" /\ gr[g].err = "nil")
      => /\ Len(gr[g].log) = 1
         /\ IF gr[g].hadKey
              THEN gr[g].log[1][1] = "db.tx.query.cached"
              ELSE /\ gr[g].log[1][1] = "db.tx.query.cache.add"
                   /\ cache[Sum64(<<gr[g].stmt>>)] # 0

\* C17: the key a Query uses is the fingerprint of its own text alone.
C17_KeyOfTextOnly ==
  \A g \in Goroutines :
    gr[g].pc \in {"q_lookup", "q_query", "q_add"}
      => gr[g].key = Sum64(<<gr[g].stmt>>)

\* C18: a Query answered from the cache is given a value that was decoded
\* for its own text.
C18_HitIsOfSameText ==
  \A g \in Goroutines :
    (gr[g].op = "Query" /\ gr[g].pc = "q_defer"
       /\ gr[g].log = <<<<"db.tx.query.cached", "nil">>>>)
      => gr[g].out \in decoded[gr[g].stmt]

\* C19: the fingerprints in the handle's cache only grow: no step removes an
\* entry, only the storing step of a Query changes the cache (Exec, Commit
\* and Rollback never do), and a Query whose key is in the cache is answered
\* from it, whether or not the handle is Terminated.
C19_CacheOnlyGrows ==
  [][/\ \A k \in Keys : cache[k] # 0 => cache'[k] # 0
     /\ cache' # cache
          => \E g \in Goroutines :
               /\ gr[g].op = "Query" /\ gr[g].pc = "q_add"
               /\ gr'[g].pc = "q_defer"
     /\ \A g \in Goroutines :
          (gr[g].pc = "q_lookup" /\ gr'[g] # gr[g] /\ cache[gr[g].key] # 0)
            => /\ gr'[g].pc = "q_defer" /\ gr'[g].err = "nil"
               /\ gr'[g].log = <<<<"db.tx.query.cached", "nil">>>>]_vars

\* C19 witness: an Exec has executed its statement and returned, the handle
\* has been Terminated, and a Query that started afterwards is answered from
\* an entry that was in the cache when it started.
C19_Witness ==
  \E g, h \in Goroutines :
    /\ g # h
    /\ gr[h].pc = "ret" /\ gr[h].op = "Exec" /\ gr[h].err = "nil"
    /\ gr[g].op = "Query" /\ gr[g].pc = "q_defer"
    /\ gr[g].startDone /\ gr[g].hadKey
    /\ gr[g].log = <<<<"db.tx.query.cached", "nil">>>>

\* C20: the transaction's rollback is invoked at most once on a handle, and
\* never once a Commit call on the handle has returned.
C20_RollbackAtMostOnce ==
  [][nRollback' # nRollback => (nRollback = 0 /\ ~commitRet)]_vars
====
